---- MODULE Spec2Model ----
(***************************************************************************)
(* Scanline polygon fill and scanline triangulation over an Edge Table     *)
(* (ET) and an Active Edge Table (AET), as implemented by                  *)
(* PolygonFillAlgorithm in t1CG/core/polygon_fill_algorithm.h.             *)
(*                                                                         *)
(* Numbers.  Vertex coordinates and rows are C++ ints.  currentX and       *)
(* inverseSlope are C++ doubles.  A double is modelled by the rational it  *)
(* holds, [n |-> numerator, d |-> denominator > 0] in lowest terms, and    *)
(* the polygons of the model are those whose slopes deltaX/deltaY are      *)
(* integers or have a power of two as denominator: on these every          *)
(* division and every addition of the code is exact in binary floating     *)
(* point, so the rational is the double.                                   *)
(***************************************************************************)
EXTENDS Integers, Sequences, FiniteSets

VARIABLES
    polygonVertices,  \* argument: the polygon outline, a sequence of Point2D
    maxHeight,        \* argument: number of rows of the drawing area
    maxWidth,         \* argument of fillPolygon: number of columns
    tieBreak,         \* how this build's std::sort orders edges of equal currentX
    pc,               \* "idle" | "scan" (inside the while loop) | "done"
    callee,           \* "none" | "fill" | "triangulate": the running function
    edgeTable,        \* local EdgeTable of the running call
    currentScanLine,  \* local int of the running call
    activeEdgeTable,  \* local std::vector<EdgeData> of the running call
    output,           \* what fillPolygon drew: spans (GL_LINES) and points (GL_POINTS)
    triangles,        \* the vector generateTriangulation returns
    previous,         \* arguments and result of the call that returned last
    callsLeft,        \* calls the caller still makes
    second,           \* the locals of a second call running at the same time
    currentApplicationState,  \* main.cpp: the ApplicationState EventHandler writes
    vertexCount,      \* PolygonManager: number of vertices of the current polygon
    polygonClosed,    \* PolygonManager: the current polygon has been closed
    savedPolygonCount,    \* PolygonManager: number of saved polygons
    visualConfiguration,  \* PolygonManager: showVertices and lineThickness
    polygonColors,    \* PolygonManager: the current fill and line colours
    selectedColorIndex,   \* EventHandler: the palette cell shown as selected
    needsRedraw,      \* EventHandler
    currentLightingModel, \* SceneManager
    shadersLoaded,    \* SceneManager
    phongProgram,     \* SceneManager: the GLuint of the Phong program, 0 if none
    currentProjection,    \* SceneManager
    currentObjectType,    \* SceneManager
    objectCount,      \* SceneManager: objects.size()
    programInUse      \* the argument of render's glUseProgram before drawing

\* The window of the 2D editor: EventHandler and the PolygonManager it drives.
uiVars == << currentApplicationState, vertexCount, polygonClosed, savedPolygonCount,
             visualConfiguration, polygonColors, selectedColorIndex, needsRedraw >>

\* The 3D scene.
sceneVars == << currentLightingModel, shadersLoaded, phongProgram, currentProjection,
                currentObjectType, objectCount, programInUse >>

\* The locals and results of the calls of PolygonFillAlgorithm.
fillVars == << polygonVertices, maxHeight, maxWidth, tieBreak, pc, callee, edgeTable,
               currentScanLine, activeEdgeTable, output, triangles, previous, callsLeft,
               second >>

vars == << fillVars, uiVars, sceneVars >>

\* The editor and the scene after construction (main.cpp, the constructors of
\* EventHandler and SceneManager); no event has been handled yet.
HostStart ==
    /\ currentApplicationState = "DRAWING_POLYGON"
    /\ vertexCount = 0
    /\ polygonClosed = FALSE
    /\ savedPolygonCount = 0
    /\ visualConfiguration = [showVertices |-> TRUE, lineThickness |-> 1]
    /\ polygonColors = [fill |-> [from |-> "initial", index |-> 0],
                        line |-> [from |-> "initial", index |-> 0]]
    /\ selectedColorIndex = 12
    /\ needsRedraw = FALSE
    /\ currentLightingModel = "FLAT"
    /\ shadersLoaded = FALSE
    /\ phongProgram = 0
    /\ currentProjection = "PERSPECTIVE"
    /\ currentObjectType = "CUBE"
    /\ objectCount = 0
    /\ programInUse = 0

-----------------------------------------------------------------------------
(* Bounds of the model.                                                    *)

MaxX == 2
MaxY == 3
MaxCalls == 2

-----------------------------------------------------------------------------
(* Data.                                                                   *)

Point2D(x, y) == [coordinateX |-> x, coordinateY |-> y]

RECURSIVE Gcd(_, _)
Gcd(a, b) == IF b = 0 THEN a ELSE Gcd(b, a % b)

Abs(a) == IF a < 0 THEN -a ELSE a

\* The double n/d (d # 0), as a rational in lowest terms with d > 0.
Double(n, d) ==
    LET g == Gcd(Abs(n), Abs(d))
        s == IF d < 0 THEN -1 ELSE 1
    IN  [n |-> (s * n) \div g, d |-> (s * d) \div g]

DAdd(a, b) == Double(a.n * b.d + b.n * a.d, a.d * b.d)

DLess(a, b) == a.n * b.d < b.n * a.d

\* static_cast<int>(v) of a double: truncation toward zero.
ToInt(a) == IF a.n >= 0 THEN a.n \div a.d ELSE -((-a.n) \div a.d)

\* static_cast<int>(v + 0.5)
RoundHalf(a) == ToInt(DAdd(a, Double(1, 2)))

EdgeData(maxY, initX, slope, minY) ==
    [maximumY |-> maxY, currentX |-> initX, inverseSlope |-> slope, minimumY |-> minY]

-----------------------------------------------------------------------------
(* buildEdgeTable.                                                         *)

calculateInverseSlope(point1, point2) ==
    LET deltaX == point2.coordinateX - point1.coordinateX
        deltaY == point2.coordinateY - point1.coordinateY
    IN  IF deltaY = 0 THEN Double(0, 1) ELSE Double(deltaX, deltaY)

\* polygonVertices[i % size] with the 0-based index of the C++ code.
VertexAt(polygon, i) == polygon[(i % Len(polygon)) + 1]

\* Fault: the loop stops before the edge from the last vertex to the first.
EdgeIndicesNoWrap(polygon) == 0 .. (Len(polygon) - 2)

\* The loop's range of vertexIndex: one edge per vertex, the last one wrapping.
EdgeIndices(polygon) == 0 .. (Len(polygon) - 1)

\* Fault: a horizontal edge that stays active for two more rows.
HorizontalEdgeLingers(currentVertex, nextVertex) ==
    [maximumY     |-> nextVertex.coordinateY + 2,
     currentX     |-> Double(currentVertex.coordinateX, 1),
     inverseSlope |-> Double(0, 1),
     minimumY     |-> currentVertex.coordinateY]

\* A horizontal edge: binned on its own row with maximumY equal to that row.
HorizontalEdge(currentVertex, nextVertex) ==
    EdgeData(nextVertex.coordinateY, Double(currentVertex.coordinateX, 1),
             Double(0, 1), currentVertex.coordinateY)

\* Fault: no adjustment for a lower endpoint on row 0.
AdjustsStartAboveRowZero(prevVertex, nextAdjacentVertex, minimumY) ==
    /\ minimumY > 0
    /\ prevVertex.coordinateY >= minimumY
    /\ nextAdjacentVertex.coordinateY >= minimumY

\* Both neighbours of the lower endpoint on the same side: the "vale" branch
\* is taken when neither is on a smaller row.
AdjustsStart(prevVertex, nextAdjacentVertex, minimumY) ==
    LET prevAbove == prevVertex.coordinateY < minimumY
        nextAbove == nextAdjacentVertex.coordinateY < minimumY
    IN  (prevAbove = nextAbove) /\ ~prevAbove

\* Fault: the test before the push lets the row just past the table through.
InsideTableOrNext(minimumY, height) == minimumY >= 0 /\ minimumY <= height

\* The test made on the adjusted start row before the push (line 107).
InsideTable(minimumY, height) == minimumY >= 0 /\ minimumY < height

\* One iteration of the for loop: what (if anything) the edge starting at
\* vertexIndex adds to the table.  binned is FALSE when nothing is pushed.
EdgeOf(polygon, vertexIndex, height) ==
    LET size          == Len(polygon)
        currentVertex == VertexAt(polygon, vertexIndex)
        nextVertex    == VertexAt(polygon, vertexIndex + 1)
    IN  IF currentVertex.coordinateY = nextVertex.coordinateY
        THEN LET minY == currentVertex.coordinateY
             IN  [binned |-> (minY >= 0 /\ minY < height),
                  row    |-> minY,
                  edge   |-> HorizontalEdge(currentVertex, nextVertex)]
        ELSE LET swapped   == currentVertex.coordinateY > nextVertex.coordinateY
                 minYPoint == IF swapped THEN nextVertex ELSE currentVertex
                 maxYPoint == IF swapped THEN currentVertex ELSE nextVertex
                 inverseSlope == calculateInverseSlope(minYPoint, maxYPoint)
                 initialX  == Double(minYPoint.coordinateX, 1)
                 maximumY  == maxYPoint.coordinateY
                 minimumY  == minYPoint.coordinateY
                 isCurrent == minYPoint.coordinateX = currentVertex.coordinateX
                              /\ minYPoint.coordinateY = currentVertex.coordinateY
                 prevVertex == IF isCurrent
                               THEN VertexAt(polygon, vertexIndex - 1 + size)
                               ELSE currentVertex
                 nextAdjacentVertex == IF isCurrent
                                       THEN nextVertex
                                       ELSE VertexAt(polygon, vertexIndex + 2)
                 adjust    == minimumY >= 0 /\ minimumY < height
                              /\ AdjustsStart(prevVertex, nextAdjacentVertex, minimumY)
                 minimumY2 == IF adjust THEN minimumY + 1 ELSE minimumY
                 initialX2 == IF adjust THEN DAdd(initialX, inverseSlope) ELSE initialX
             IN  [binned |-> InsideTable(minimumY2, height),
                  row    |-> minimumY2,
                  edge   |-> EdgeData(maximumY, initialX2, inverseSlope, minimumY2)]

\* The edges pushed into bucket row, in the order of the for loop.
RECURSIVE Bucket(_, _, _, _)
Bucket(polygon, height, row, indices) ==
    IF indices = {} THEN << >>
    ELSE LET i == CHOOSE k \in indices : \A j \in indices : k <= j
             e == EdgeOf(polygon, i, height)
             rest == Bucket(polygon, height, row, indices \ {i})
         IN  IF e.binned /\ e.row = row THEN << e.edge >> \o rest ELSE rest

\* Fault: the loop is abandoned at the first edge that is not binned.
buildEdgeTableStopsAtDropped(polygon, height) ==
    LET dropped == {i \in EdgeIndices(polygon) : ~EdgeOf(polygon, i, height).binned}
        before  == {i \in EdgeIndices(polygon) : \A j \in dropped : i < j}
    IN  [row \in 0 .. (height - 1) |-> Bucket(polygon, height, row, before)]

buildEdgeTable(polygon, height) ==
    IF Len(polygon) < 2
    THEN [row \in 0 .. (height - 1) |-> << >>]
    ELSE [row \in 0 .. (height - 1) |->
             Bucket(polygon, height, row, EdgeIndices(polygon))]

-----------------------------------------------------------------------------
(* The traversal core shared by fillPolygon and generateTriangulation.     *)

\* The first while loop: the lowest non-empty row, or the table size.
RECURSIVE FirstNonEmptyRow(_, _, _)
FirstNonEmptyRow(table, height, row) ==
    IF row < height /\ table[row] = << >>
    THEN FirstNonEmptyRow(table, height, row + 1)
    ELSE row

\* MoveEdges that also appends the bucket of the row before: an edge that is,
\* or was, in the AET enters it a second time.
MoveEdgesAgain(aet, table, height, row) ==
    LET before == IF row >= 1 /\ row - 1 < height THEN table[row - 1] ELSE << >>
        now    == IF row < height THEN table[row] ELSE << >>
    IN  aet \o before \o now

\* Step 1 of a row: the edges of edgeTable[currentScanLine] are appended.
MoveEdges(aet, table, height, row) ==
    IF row < height /\ table[row] # << >> THEN aet \o table[row] ELSE aet

\* std::sort by currentX.  The comparator has no second key and std::sort is
\* not a stable sort: edges of equal currentX come out in an order the build
\* chooses.  "insertion" keeps them in AET order, "reversed" reverses them.
InsertByX(sorted, edge, policy) ==
    LET before == IF policy = "reversed"
                  THEN {k \in 1 .. Len(sorted) : DLess(sorted[k].currentX, edge.currentX)}
                  ELSE {k \in 1 .. Len(sorted) : ~DLess(edge.currentX, sorted[k].currentX)}
        m == Cardinality(before)
    IN  SubSeq(sorted, 1, m) \o << edge >> \o SubSeq(sorted, m + 1, Len(sorted))

RECURSIVE SortPrefix(_, _, _)
SortPrefix(aet, k, policy) ==
    IF k = 0 THEN << >>
    ELSE InsertByX(SortPrefix(aet, k - 1, policy), aet[k], policy)

SortByX(aet, policy) == SortPrefix(aet, Len(aet), policy)

\* Two edges of the vector that the comparator does not order.
HasTie(aet) ==
    \E j, k \in 1 .. Len(aet) : j < k /\ aet[j].currentX = aet[k].currentX

\* The x step left out: every edge keeps the x it was binned with.
AdvanceXNever(aet) == aet

\* currentX += inverseSlope for every edge of the AET.
AdvanceX(aet) ==
    [k \in 1 .. Len(aet) |->
        [aet[k] EXCEPT !.currentX = DAdd(aet[k].currentX, aet[k].inverseSlope)]]

\* Fault: maximumY taken as an inclusive bound (removal on maximumY < row).
RemoveFinishedInclusive(aet, row) == SelectSeq(aet, LAMBDA e : e.maximumY >= row)

\* remove_if(maximumY <= currentScanLine), after the increment.
RemoveFinished(aet, row) == SelectSeq(aet, LAMBDA e : e.maximumY > row)

\* The AET at the emission point of a row.
RowEdges(aet, table, height, row, policy) ==
    SortByX(MoveEdges(aet, table, height, row), policy)

\* The orders this build's std::sort can produce on a row.  Which order the
\* build gives to equal keys is one fixed property of the build; it stays
\* "unobserved" until a sort first meets two equal keys.
SortPolicies(aet, table, height, row) ==
    IF tieBreak = "unobserved"
    THEN IF HasTie(MoveEdges(aet, table, height, row))
         THEN {"insertion", "reversed"}
         ELSE {"unobserved"}
    ELSE {tieBreak}

\* The AET carried to the next row.
NextEdges(sortedAet, row) == RemoveFinished(AdvanceX(sortedAet), row + 1)

\* Fault: the copy of the loop in generateTriangulation forgets the x step.
TriangulateNextEdgesNoAdvance(sortedAet, row) == RemoveFinished(sortedAet, row + 1)

\* The same three statements as written a second time, in
\* generateTriangulation (lines 284-297).
TriangulateNextEdges(sortedAet, row) == RemoveFinished(AdvanceX(sortedAet), row + 1)

\* Fault: the loop is left at the end of the table, edges still active.
LoopEndsAtTableEnd(aet, row, height) == row >= height

\* Both while conditions: the loop is left when the AET is empty and the
\* scanline has passed the table.
LoopEnds(aet, row, height) == aet = << >> /\ row >= height

-----------------------------------------------------------------------------
(* fillPolygon: emission.                                                  *)

Span(row, x1, x2) == [kind |-> "span", row |-> row, xStart |-> x1, xEnd |-> x2]

Pixel(row, x) == [kind |-> "point", row |-> row, x |-> x]

\* The pair (edgeIndex, edgeIndex + 1) of the sorted AET, 1-based: rounding,
\* ordering, clamping, and the test that guards the two glVertex2i calls.
\* The line is drawn from x1 to x2 + 1, that is the pixels x1 .. x2.
\* Fault: the right end is clamped to maxWidth, one past the last column.
ClampRightToWidth(x, width) == IF x >= width THEN width ELSE x

ClampRight(x, width) == IF x >= width THEN width - 1 ELSE x

ClampLeft(x) == IF x < 0 THEN 0 ELSE x

PairSpan(aet, k, row, height, width) ==
    LET r1 == RoundHalf(aet[k].currentX)
        r2 == RoundHalf(aet[k + 1].currentX)
        lo == IF r1 > r2 THEN r2 ELSE r1
        hi == IF r1 > r2 THEN r1 ELSE r2
        x1 == ClampLeft(lo)
        x2 == ClampRight(hi, width)
    IN  IF x1 <= x2 /\ row >= 0 /\ row < height
        THEN << Span(row, x1, x2) >>
        ELSE << >>

RECURSIVE PairSpans(_, _, _, _, _)
PairSpans(aet, k, row, height, width) ==
    IF k + 1 > Len(aet) THEN << >>
    ELSE PairSpan(aet, k, row, height, width)
         \o PairSpans(aet, k + 2, row, height, width)

\* Fault: the unpaired point is drawn only for an edge that goes on past the
\* row, so it depends on which of two edges of equal x the sort puts last.
OddPointOfLastingEdge(aet, row, height, width) ==
    IF Len(aet) % 2 = 1 /\ aet[Len(aet)].maximumY > row
    THEN LET x == RoundHalf(aet[Len(aet)].currentX)
         IN  IF x >= 0 /\ x < width /\ row >= 0 /\ row < height
             THEN << Pixel(row, x) >>
             ELSE << >>
    ELSE << >>

\* The unpaired last edge of an odd AET.
OddPoint(aet, row, height, width) ==
    IF Len(aet) % 2 = 1
    THEN LET x == RoundHalf(aet[Len(aet)].currentX)
         IN  IF x >= 0 /\ x < width /\ row >= 0 /\ row < height
             THEN << Pixel(row, x) >>
             ELSE << >>
    ELSE << >>

FillRowOutput(aet, row, height, width) ==
    IF Len(aet) >= 2
    THEN PairSpans(aet, 1, row, height, width) \o OddPoint(aet, row, height, width)
    ELSE << >>

-----------------------------------------------------------------------------
(* generateTriangulation: emission.                                        *)

\* Fault: only the first triangle of the trapezoid is appended.
PairTrianglesFirstOnly(aet, k, row) ==
    << << Point2D(ToInt(aet[k].currentX), row),
          Point2D(ToInt(aet[k + 1].currentX), row),
          Point2D(ToInt(DAdd(aet[k].currentX, aet[k].inverseSlope)), row + 1) >> >>

PairTriangles(aet, k, row) ==
    LET x1_start == aet[k].currentX
        x2_start == aet[k + 1].currentX
        x1_end == DAdd(x1_start, aet[k].inverseSlope)
        x2_end == DAdd(x2_start, aet[k + 1].inverseSlope)
        p1 == Point2D(ToInt(x1_start), row)
        p2 == Point2D(ToInt(x2_start), row)
        p3 == Point2D(ToInt(x1_end), row + 1)
        p4 == Point2D(ToInt(x2_end), row + 1)
    IN  << << p1, p2, p3 >>, << p2, p4, p3 >> >>

RECURSIVE RowTriangles(_, _, _)
RowTriangles(aet, k, row) ==
    IF k + 1 > Len(aet) THEN << >>
    ELSE PairTriangles(aet, k, row) \o RowTriangles(aet, k + 2, row)

TriangulateRowOutput(aet, row) ==
    IF Len(aet) >= 2 THEN RowTriangles(aet, 1, row) ELSE << >>

-----------------------------------------------------------------------------
(* The two functions as functions of their arguments: the same steps,      *)
(* run from the call to the return.                                        *)

\* The locals a call starts with.
NewActiveEdgeTable == << >>

\* Fault: the result list of the previous call is reused.
StaleTriangles == triangles

NewTriangles == << >>

NoTable == << >>

\* Fault: the length check lets a two-vertex outline through.
FillRejectsBelowTwo(polygon) == Len(polygon) < 2

\* The length checks that open the two functions.
FillRejects(polygon) == Len(polygon) < 3

TriangulateRejects(polygon) == Len(polygon) < 3

RECURSIVE FillLoop(_, _, _, _, _, _)
FillLoop(aet, table, height, width, row, policy) ==
    LET sorted == RowEdges(aet, table, height, row, policy)
        next   == NextEdges(sorted, row)
    IN  FillRowOutput(sorted, row, height, width)
        \o (IF LoopEnds(next, row + 1, height)
            THEN << >>
            ELSE FillLoop(next, table, height, width, row + 1, policy))

fillPolygon(polygon, height, width, policy) ==
    IF FillRejects(polygon) THEN << >>
    ELSE LET table == buildEdgeTable(polygon, height)
             first == FirstNonEmptyRow(table, height, 0)
         IN  IF first >= height THEN << >>
             ELSE FillLoop(<< >>, table, height, width, first, policy)

RECURSIVE TriangulateLoop(_, _, _, _, _)
TriangulateLoop(aet, table, height, row, policy) ==
    LET sorted == RowEdges(aet, table, height, row, policy)
        next   == TriangulateNextEdges(sorted, row)
    IN  TriangulateRowOutput(sorted, row)
        \o (IF LoopEnds(next, row + 1, height)
            THEN << >>
            ELSE TriangulateLoop(next, table, height, row + 1, policy))

generateTriangulation(polygon, height, policy) ==
    IF TriangulateRejects(polygon) THEN << >>
    ELSE LET table == buildEdgeTable(polygon, height)
             first == FirstNonEmptyRow(table, height, 0)
         IN  IF first >= height THEN << >>
             ELSE TriangulateLoop(<< >>, table, height, first, policy)

-----------------------------------------------------------------------------
(* The two entry points, one action per call and one per loop iteration.   *)

\* fillPolygon up to its main loop (lines 128-145): the length check, the
\* table, the search for the first non-empty row.
CallFillPolygon ==
    /\ pc = "idle"
    /\ callsLeft > 0
    /\ callee' = "fill"
    /\ activeEdgeTable' = NewActiveEdgeTable
    /\ output' = << >>
    /\ IF FillRejects(polygonVertices)
       THEN /\ pc' = "done"
            /\ edgeTable' = NoTable
            /\ currentScanLine' = 0
       ELSE LET table == buildEdgeTable(polygonVertices, maxHeight)
                first == FirstNonEmptyRow(table, maxHeight, 0)
            IN  /\ edgeTable' = table
                /\ currentScanLine' = first
                /\ pc' = IF first >= maxHeight THEN "done" ELSE "scan"
    /\ UNCHANGED << polygonVertices, maxHeight, maxWidth, tieBreak, triangles,
                    previous, callsLeft, second, uiVars, sceneVars >>

\* generateTriangulation up to its main loop (lines 217-234).
CallGenerateTriangulation ==
    /\ pc = "idle"
    /\ callsLeft > 0
    /\ callee' = "triangulate"
    /\ activeEdgeTable' = NewActiveEdgeTable
    /\ triangles' = NewTriangles
    /\ IF TriangulateRejects(polygonVertices)
       THEN /\ pc' = "done"
            /\ edgeTable' = NoTable
            /\ currentScanLine' = 0
       ELSE LET table == buildEdgeTable(polygonVertices, maxHeight)
                first == FirstNonEmptyRow(table, maxHeight, 0)
            IN  /\ edgeTable' = table
                /\ currentScanLine' = first
                /\ pc' = IF first >= maxHeight THEN "done" ELSE "scan"
    /\ UNCHANGED << polygonVertices, maxHeight, maxWidth, tieBreak, output,
                    previous, callsLeft, second, uiVars, sceneVars >>

\* One iteration of the while loop of fillPolygon (lines 147-208).
FillRow ==
    /\ pc = "scan"
    /\ callee = "fill"
    /\ \E policy \in SortPolicies(activeEdgeTable, edgeTable, maxHeight, currentScanLine) :
         LET row    == currentScanLine
             sorted == RowEdges(activeEdgeTable, edgeTable, maxHeight, row, policy)
             next   == NextEdges(sorted, row)
         IN  /\ tieBreak' = policy
             /\ output' = output \o FillRowOutput(sorted, row, maxHeight, maxWidth)
             /\ currentScanLine' = row + 1
             /\ activeEdgeTable' = next
             /\ pc' = IF LoopEnds(next, row + 1, maxHeight) THEN "done" ELSE "scan"
    /\ UNCHANGED << polygonVertices, maxHeight, maxWidth, callee, edgeTable,
                    triangles, previous, callsLeft, second, uiVars, sceneVars >>

\* One iteration of the while loop of generateTriangulation (lines 236-302).
TriangulateRow ==
    /\ pc = "scan"
    /\ callee = "triangulate"
    /\ \E policy \in SortPolicies(activeEdgeTable, edgeTable, maxHeight, currentScanLine) :
         LET row    == currentScanLine
             sorted == RowEdges(activeEdgeTable, edgeTable, maxHeight, row, policy)
             next   == TriangulateNextEdges(sorted, row)
         IN  /\ tieBreak' = policy
             /\ triangles' = triangles \o TriangulateRowOutput(sorted, row)
             /\ currentScanLine' = row + 1
             /\ activeEdgeTable' = next
             /\ pc' = IF LoopEnds(next, row + 1, maxHeight) THEN "done" ELSE "scan"
    /\ UNCHANGED << polygonVertices, maxHeight, maxWidth, callee, edgeTable,
                    output, previous, callsLeft, second, uiVars, sceneVars >>

\* The call returns and its caller goes on to its next call.  The locals of
\* the returned call are dead: the next call makes its own.
Return ==
    /\ pc = "done"
    /\ callsLeft > 1
    /\ pc' = "idle"
    /\ previous' = [callee |-> callee, output |-> output, triangles |-> triangles]
    /\ callsLeft' = callsLeft - 1
    /\ UNCHANGED << polygonVertices, maxHeight, maxWidth, tieBreak, callee, edgeTable,
                    currentScanLine, activeEdgeTable, output, triangles, second,
                    uiVars, sceneVars >>

Next ==
    \/ CallFillPolygon
    \/ CallGenerateTriangulation
    \/ FillRow
    \/ TriangulateRow
    \/ Return

\* A second call, made while the first is running (another thread with its
\* own PolygonFillAlgorithm use): the same code on its own locals.

\* Fault: the second call works on the AET of the first (a shared vector).
SharedActiveEdgeTable == activeEdgeTable

\* The activeEdgeTable the second call's loop reads: its own local.
SecondActiveEdgeTable == second.activeEdgeTable

SecondCallFillPolygon ==
    /\ second.pc = "idle"
    /\ second' =
         IF FillRejects(second.polygonVertices)
         THEN [second EXCEPT !.callee = "fill", !.pc = "done",
                             !.activeEdgeTable = NewActiveEdgeTable, !.output = << >>]
         ELSE LET table == buildEdgeTable(second.polygonVertices, maxHeight)
                  first == FirstNonEmptyRow(table, maxHeight, 0)
              IN  [second EXCEPT !.callee = "fill",
                                 !.edgeTable = table,
                                 !.currentScanLine = first,
                                 !.activeEdgeTable = NewActiveEdgeTable,
                                 !.output = << >>,
                                 !.pc = IF first >= maxHeight THEN "done" ELSE "scan"]
    /\ UNCHANGED << polygonVertices, maxHeight, maxWidth, tieBreak, pc, callee,
                    edgeTable, currentScanLine, activeEdgeTable, output, triangles,
                    previous, callsLeft, uiVars, sceneVars >>

SecondCallGenerateTriangulation ==
    /\ second.pc = "idle"
    /\ second' =
         IF TriangulateRejects(second.polygonVertices)
         THEN [second EXCEPT !.callee = "triangulate", !.pc = "done",
                             !.activeEdgeTable = NewActiveEdgeTable,
                             !.triangles = << >>]
         ELSE LET table == buildEdgeTable(second.polygonVertices, maxHeight)
                  first == FirstNonEmptyRow(table, maxHeight, 0)
              IN  [second EXCEPT !.callee = "triangulate",
                                 !.edgeTable = table,
                                 !.currentScanLine = first,
                                 !.activeEdgeTable = NewActiveEdgeTable,
                                 !.triangles = << >>,
                                 !.pc = IF first >= maxHeight THEN "done" ELSE "scan"]
    /\ UNCHANGED << polygonVertices, maxHeight, maxWidth, tieBreak, pc, callee,
                    edgeTable, currentScanLine, activeEdgeTable, output, triangles,
                    previous, callsLeft, uiVars, sceneVars >>

SecondFillRow ==
    /\ second.pc = "scan"
    /\ second.callee = "fill"
    /\ \E policy \in SortPolicies(SecondActiveEdgeTable, second.edgeTable, maxHeight,
                                  second.currentScanLine) :
         LET row    == second.currentScanLine
             sorted == RowEdges(SecondActiveEdgeTable, second.edgeTable, maxHeight,
                                row, policy)
             next   == NextEdges(sorted, row)
         IN  /\ tieBreak' = policy
             /\ second' =
                  [second EXCEPT
                      !.output = @ \o FillRowOutput(sorted, row, maxHeight, maxWidth),
                      !.currentScanLine = row + 1,
                      !.activeEdgeTable = next,
                      !.pc = IF LoopEnds(next, row + 1, maxHeight)
                             THEN "done" ELSE "scan"]
    /\ UNCHANGED << polygonVertices, maxHeight, maxWidth, pc, callee, edgeTable,
                    currentScanLine, activeEdgeTable, output, triangles, previous,
                    callsLeft, uiVars, sceneVars >>

SecondTriangulateRow ==
    /\ second.pc = "scan"
    /\ second.callee = "triangulate"
    /\ \E policy \in SortPolicies(SecondActiveEdgeTable, second.edgeTable, maxHeight,
                                  second.currentScanLine) :
         LET row    == second.currentScanLine
             sorted == RowEdges(SecondActiveEdgeTable, second.edgeTable, maxHeight,
                                row, policy)
             next   == TriangulateNextEdges(sorted, row)
         IN  /\ tieBreak' = policy
             /\ second' =
                  [second EXCEPT
                      !.triangles = @ \o TriangulateRowOutput(sorted, row),
                      !.currentScanLine = row + 1,
                      !.activeEdgeTable = next,
                      !.pc = IF LoopEnds(next, row + 1, maxHeight)
                             THEN "done" ELSE "scan"]
    /\ UNCHANGED << polygonVertices, maxHeight, maxWidth, pc, callee, edgeTable,
                    currentScanLine, activeEdgeTable, output, triangles, previous,
                    callsLeft, uiVars, sceneVars >>

\* Two calls in progress at once, their steps taken in any order.
InterleavedNext ==
    \/ CallFillPolygon
    \/ CallGenerateTriangulation
    \/ FillRow
    \/ TriangulateRow
    \/ SecondCallFillPolygon
    \/ SecondCallGenerateTriangulation
    \/ SecondFillRow
    \/ SecondTriangulateRow

-----------------------------------------------------------------------------------------------------------------------------------------------------
(* Inputs.                                                                 *)

\* Grid vertices; row -1 lies below the table, row MaxY above a table of
\* MaxY rows.
Points == {Point2D(x, y) : x \in 0 .. MaxX, y \in -1 .. MaxY}

\* Vertices of the quadrilaterals: the two outer columns, three rows.
QuadPoints == {Point2D(x, y) : x \in {0, MaxX}, y \in {0, 1, MaxY}}

IsPowerOfTwo(k) == k \in {1, 2, 4, 8, 16, 32, 64}

\* deltaX / deltaY is computed exactly in a double, and so is every multiple.
ExactSlope(point1, point2) ==
    LET deltaX == point2.coordinateX - point1.coordinateX
        deltaY == Abs(point2.coordinateY - point1.coordinateY)
    IN  deltaY = 0 \/ IsPowerOfTwo(deltaY) \/ deltaX % deltaY = 0

ExactSlopes(polygon) ==
    \A i \in 1 .. Len(polygon) :
        ExactSlope(polygon[i], polygon[(i % Len(polygon)) + 1])

Polygons ==
    {polygon \in UNION {[1 .. n -> Points] : n \in 0 .. 3} \cup [1 .. 4 -> QuadPoints] :
        ExactSlopes(polygon)}

\* << maxHeight, maxWidth >>: a table one row short of the grid, the whole
\* grid, and the two zero extents.
Dimensions ==
    { << MaxY, MaxX + 1 >>, << MaxY + 1, MaxX + 1 >>, << 0, MaxX + 1 >>, << MaxY + 1, 0 >> }

\* The polygons a caller fills or triangulates more than once.
RepeatedPolygons ==
    {polygon \in UNION {[1 .. n -> QuadPoints] : n \in 2 .. 3} : ExactSlopes(polygon)}

RepeatedDimensions == { << MaxY + 1, MaxX + 1 >> }

\* No second call is running.
NoSecondCall ==
    [pc |-> "absent", callee |-> "none", polygonVertices |-> << >>,
     edgeTable |-> NoTable, currentScanLine |-> 0, activeEdgeTable |-> << >>,
     output |-> << >>, triangles |-> << >>]

Start(polygons, dimensions, calls) ==
    /\ polygonVertices \in polygons
    /\ \E dimension \in dimensions :
         /\ maxHeight = dimension[1]
         /\ maxWidth = dimension[2]
    /\ tieBreak = "unobserved"
    /\ pc = "idle"
    /\ callee = "none"
    /\ edgeTable = NoTable
    /\ currentScanLine = 0
    /\ activeEdgeTable = << >>
    /\ output = << >>
    /\ triangles = << >>
    /\ previous = [callee |-> "none", output |-> << >>, triangles |-> << >>]
    /\ callsLeft = calls
    /\ second = NoSecondCall
    /\ HostStart

Init ==
    \/ Start(Polygons, Dimensions, 1)
    \/ Start(RepeatedPolygons, RepeatedDimensions, MaxCalls)

Spec == Init /\ [][Next]_vars

\* The step every iteration of either loop takes: currentScanLine++.  Under
\* Next the steps that satisfy it are exactly the FillRow and TriangulateRow
\* steps, and it is possible exactly when one of them is (pc = "scan").
ScanlineAdvance == pc = "scan" /\ currentScanLine' = currentScanLine + 1

\* The family for the termination check: outlines over the corner points,
\* in a table that ends below their greatest row (their edges reach past
\* it), one that holds them, and one with no row at all.
TerminationDimensions == {<< MaxY - 1, MaxX + 1 >>, << MaxY + 1, MaxX + 1 >>, << 0, MaxX + 1 >>}

TerminationInit == Start(RepeatedPolygons, TerminationDimensions, MaxCalls)

\* A call that has entered its loop is not suspended for ever: the loop body
\* is straight-line code run by the calling thread.
FairSpec == TerminationInit /\ [][Next]_vars /\ WF_currentScanLine(ScanlineAdvance)

\* The outlines of two calls that run at the same time: corner-point
\* triangles that start in the origin for the first call, in the opposite
\* corner of row 0 for the second.
FirstPolygons ==
    {polygon \in RepeatedPolygons : Len(polygon) = 3 /\ polygon[1] = Point2D(0, 0)}

SecondPolygons ==
    {polygon \in RepeatedPolygons : Len(polygon) = 3 /\ polygon[1] = Point2D(MaxX, 0)}

InterleavedInit ==
    /\ polygonVertices \in FirstPolygons
    /\ maxHeight = MaxY + 1
    /\ maxWidth = MaxX + 1
    /\ tieBreak = "unobserved"
    /\ pc = "idle"
    /\ callee = "none"
    /\ edgeTable = NoTable
    /\ currentScanLine = 0
    /\ activeEdgeTable = << >>
    /\ output = << >>
    /\ triangles = << >>
    /\ previous = [callee |-> "none", output |-> << >>, triangles |-> << >>]
    /\ callsLeft = 1
    /\ \E polygon \in SecondPolygons :
          second = [NoSecondCall EXCEPT !.pc = "idle", !.polygonVertices = polygon]
    /\ HostStart

InterleavedSpec == InterleavedInit /\ [][InterleavedNext]_vars

\* Outlines that reach left of column 0, in an area one column narrower than
\* their right-most vertex: both clamps of the span are exercised.
ClipPoints == {Point2D(x, y) : x \in {0 - 2, 0 - 1, 0, MaxX}, y \in {0, 1, MaxY}}

ClipPolygons == {polygon \in [1 .. 3 -> ClipPoints] : ExactSlopes(polygon)}

ClipDimensions == { << MaxY + 1, MaxX >> }

ClipInit == Start(ClipPolygons, ClipDimensions, MaxCalls)

ClipSpec == ClipInit /\ [][Next]_vars

\* The same outline handed to two calls at once, to compare the loop of
\* fillPolygon with the loop of generateTriangulation row by row.
PairedInit ==
    /\ polygonVertices \in RepeatedPolygons
    /\ \E dimension \in TerminationDimensions :
         /\ maxHeight = dimension[1]
         /\ maxWidth = dimension[2]
    /\ tieBreak = "unobserved"
    /\ pc = "idle"
    /\ callee = "none"
    /\ edgeTable = NoTable
    /\ currentScanLine = 0
    /\ activeEdgeTable = << >>
    /\ output = << >>
    /\ triangles = << >>
    /\ previous = [callee |-> "none", output |-> << >>, triangles |-> << >>]
    /\ callsLeft = 1
    /\ second = [NoSecondCall EXCEPT !.pc = "idle", !.polygonVertices = polygonVertices]
    /\ HostStart

PairedSpec == PairedInit /\ [][InterleavedNext]_vars

\* The two worked scenarios: the axis-aligned square in a 60-row area and
\* the triangle with a horizontal first edge in an 11-row area.
ScenarioA == << Point2D(10, 10), Point2D(50, 10), Point2D(50, 50), Point2D(10, 50) >>

ScenarioADimensions == { << 60, 51 >>, << 60, 60 >> }

ScenarioB == << Point2D(0, 0), Point2D(10, 0), Point2D(5, 10) >>

ScenarioBDimensions == { << 11, 11 >>, << 11, 20 >> }

ScenarioInit ==
    \/ Start({ScenarioA}, ScenarioADimensions, MaxCalls)
    \/ Start({ScenarioB}, ScenarioBDimensions, MaxCalls)

ScenarioSpec == ScenarioInit /\ [][Next]_vars

-----------------------------------------------------------------------------
(* Properties.                                                             *)

\* What fillPolygon drew on one row, in drawing order.
OnRow(drawn, row) == SelectSeq(drawn, LAMBDA o : o.row = row)

SpansOnRow(drawn, row) == SelectSeq(drawn, LAMBDA o : o.row = row /\ o.kind = "span")

\* Geometry of the outline, for stating the properties.

Successor(polygon, k) == polygon[(k % Len(polygon)) + 1]

Predecessor(polygon, k) == polygon[((k - 2) % Len(polygon)) + 1]

RowsOf(polygon) == {polygon[k].coordinateY : k \in 1 .. Len(polygon)}

MinRow(polygon) == CHOOSE r \in RowsOf(polygon) : \A q \in RowsOf(polygon) : r <= q

MaxRow(polygon) == CHOOSE r \in RowsOf(polygon) : \A q \in RowsOf(polygon) : q <= r

\* The non-horizontal edges (by the index of their first vertex) that meet a
\* row, with the end point on the greater row included or not.
EdgesMeeting(polygon, row) ==
    {k \in 1 .. Len(polygon) :
        LET a == polygon[k].coordinateY
            b == Successor(polygon, k).coordinateY
        IN  a # b /\ ((a <= row /\ row <= b) \/ (b <= row /\ row <= a))}

EdgesCrossing(polygon, row) ==
    {k \in 1 .. Len(polygon) :
        LET a == polygon[k].coordinateY
            b == Successor(polygon, k).coordinateY
        IN  (a <= row /\ row < b) \/ (b <= row /\ row < a)}

\* The x at which edge k meets a row, in closed form.
CrossingX(polygon, k, row) ==
    LET a == polygon[k]
        b == Successor(polygon, k)
    IN  Double(a.coordinateX * (b.coordinateY - a.coordinateY)
                   + (row - a.coordinateY) * (b.coordinateX - a.coordinateX),
               b.coordinateY - a.coordinateY)

Crossings(polygon, row) == {CrossingX(polygon, k, row) : k \in EdgesMeeting(polygon, row)}

Leftmost(xs) == CHOOSE x \in xs : \A y \in xs : ~DLess(y, x)

Rightmost(xs) == CHOOSE x \in xs : \A y \in xs : ~DLess(x, y)

\* i is an integer nearest to x (either neighbour when x is halfway).
Nearest(i, x) == 2 * Abs(i * x.d - x.n) <= x.d

Turn(a, b, c) ==
    (b.coordinateX - a.coordinateX) * (c.coordinateY - a.coordinateY)
        - (b.coordinateY - a.coordinateY) * (c.coordinateX - a.coordinateX)

\* A convex outline: every vertex lies on the same side of (or on) every
\* edge, and the vertices are not all on one line.
Convex(polygon) ==
    LET turns == {Turn(polygon[k], Successor(polygon, k), polygon[j]) :
                      k \in 1 .. Len(polygon), j \in 1 .. Len(polygon)}
    IN  /\ Len(polygon) >= 3
        /\ (\A t \in turns : t >= 0) \/ (\A t \in turns : t <= 0)
        /\ \E t \in turns : t # 0

InsideArea(polygon, height, width) ==
    \A k \in 1 .. Len(polygon) :
        /\ polygon[k].coordinateX \in 0 .. (width - 1)
        /\ polygon[k].coordinateY \in 0 .. (height - 1)

RowsInside(polygon, height) ==
    \A k \in 1 .. Len(polygon) : polygon[k].coordinateY \in 0 .. (height - 1)

Shift(polygon, k) ==
    [i \in 1 .. Len(polygon) |->
        Point2D(polygon[i].coordinateX, polygon[i].coordinateY + k)]

ShiftRows(drawn, k) ==
    [i \in 1 .. Len(drawn) |-> [drawn[i] EXCEPT !.row = @ + k]]

\* The entry of the edge from vertex k to its successor, written from the
\* geometry: a horizontal edge on its own row; any other edge from its lower
\* end point, one row and one slope step further when that end point lies on
\* a row of the table and its other neighbour is not on a smaller row.
ExpectedEntry(polygon, k, height) ==
    LET a == polygon[k]
        b == Successor(polygon, k)
    IN  IF a.coordinateY = b.coordinateY
        THEN [row  |-> a.coordinateY,
              edge |-> [maximumY     |-> a.coordinateY,
                        currentX     |-> Double(a.coordinateX, 1),
                        inverseSlope |-> Double(0, 1),
                        minimumY     |-> a.coordinateY]]
        ELSE LET lower == IF a.coordinateY < b.coordinateY THEN a ELSE b
                 upper == IF a.coordinateY < b.coordinateY THEN b ELSE a
                 other == IF a.coordinateY < b.coordinateY
                          THEN Predecessor(polygon, k)
                          ELSE Successor(polygon, k + 1)
                 slope == Double(upper.coordinateX - lower.coordinateX,
                                 upper.coordinateY - lower.coordinateY)
                 moved == /\ lower.coordinateY \in 0 .. (height - 1)
                          /\ other.coordinateY >= lower.coordinateY
                 row   == IF moved THEN lower.coordinateY + 1 ELSE lower.coordinateY
                 x     == IF moved THEN DAdd(Double(lower.coordinateX, 1), slope)
                                   ELSE Double(lower.coordinateX, 1)
             IN  [row  |-> row,
                  edge |-> [maximumY     |-> upper.coordinateY,
                            currentX     |-> x,
                            inverseSlope |-> slope,
                            minimumY     |-> row]]

\* The entries expected in one bucket, in the order of the vertices.
ExpectedBucket(polygon, row, height) ==
    LET all  == [k \in 1 .. Len(polygon) |-> ExpectedEntry(polygon, k, height)]
        here == SelectSeq(all, LAMBDA e : e.row = row)
    IN  [j \in 1 .. Len(here) |-> here[j].edge]

TableBuilt == callee # "none" /\ Len(polygonVertices) >= 3

HorizontalEdges(polygon) ==
    {k \in 1 .. Len(polygon) : polygon[k].coordinateY = Successor(polygon, k).coordinateY}

\* Exactly one horizontal edge, of non-zero length, on the given row.
OneHorizontalEdgeOn(polygon, row) ==
    /\ Len(polygon) >= 3
    /\ \E k \in 1 .. Len(polygon) :
          /\ HorizontalEdges(polygon) = {k}
          /\ polygon[k].coordinateY = row
          /\ polygon[k].coordinateX # Successor(polygon, k).coordinateX

FillDone == pc = "done" /\ callee = "fill"

TriangulateDone == pc = "done" /\ callee = "triangulate"

\* C1: fillPolygon and generateTriangulation called with a polygon of 0, 1
\* or 2 vertices return at once with an empty result (no span, no point, no
\* triangle), whatever maxHeight and maxWidth are; the main loop is never
\* entered.
C1_FewVerticesEmpty ==
    (Len(polygonVertices) < 3 /\ callee # "none")
        => (pc # "scan" /\ output = << >> /\ triangles = << >>)

\* A two-vertex outline, with room to draw, has been passed to fillPolygon.
C1_Witness ==
    /\ FillDone
    /\ Len(polygonVertices) = 2
    /\ polygonVertices[1] # polygonVertices[2]
    /\ maxHeight > 0
    /\ maxWidth > 0

\* C2 (as claimed): filling the square (10,10),(50,10),(50,50),(10,50) with
\* maxHeight = 60 and maxWidth > 50 draws exactly the span 10..50 on every
\* row 10..49 and no span on any other row.
C2_ScenarioARows10To49 ==
    (FillDone /\ polygonVertices = ScenarioA)
        => \A row \in 0 .. (maxHeight - 1) :
              SpansOnRow(output, row) =
                  IF row \in 10 .. 49 THEN << Span(row, 10, 50) >> ELSE << >>

\* C3 (as claimed): filling the triangle (0,0),(10,0),(5,10) with
\* maxHeight = 11 draws on row 0 nothing or a single degenerate point, and
\* draws on row 10 a single point or a minimal span next to x = 5.
C3_ScenarioBApexOnRow10 ==
    (FillDone /\ polygonVertices = ScenarioB)
        => /\ \/ OnRow(output, 0) = << >>
              \/ /\ Len(OnRow(output, 0)) = 1
                 /\ OnRow(output, 0)[1].kind = "point"
           /\ Len(OnRow(output, 10)) = 1
           /\ LET apex == OnRow(output, 10)[1]
              IN  IF apex.kind = "point"
                  THEN apex.x \in 4 .. 6
                  ELSE apex.xStart \in 4 .. 6 /\ apex.xEnd \in 4 .. 6

\* C3 (amended): filling the triangle (0,0),(10,0),(5,10) with maxHeight = 11
\* draws nothing on row 0 and nothing on row 10, the apex row, which maximumY
\* excludes; the last row drawn is row 9, with the single minimal span 5..6
\* next to x = 5.
C3_ScenarioBApexOnRow9 ==
    (FillDone /\ polygonVertices = ScenarioB)
        => /\ OnRow(output, 0) = << >>
           /\ OnRow(output, 10) = << >>
           /\ OnRow(output, 9) = << Span(9, 5, 6) >>

\* The triangle of scenario B has been filled and something was drawn.
C3_Witness ==
    /\ FillDone
    /\ polygonVertices = ScenarioB
    /\ maxHeight = 11
    /\ output # << >>

\* C4: for every convex polygon whose vertices all lie inside
\* [0,maxWidth) x [0,maxHeight), fillPolygon draws on every row strictly
\* between the least and the greatest vertex row exactly one span and nothing
\* else, and the ends of that span are the leftmost and the rightmost crossing
\* of the outline with the row, each rounded to a nearest integer.
C4_ConvexRowCoverage ==
    (FillDone /\ Convex(polygonVertices)
              /\ InsideArea(polygonVertices, maxHeight, maxWidth))
        => \A row \in (MinRow(polygonVertices) + 1) .. (MaxRow(polygonVertices) - 1) :
              LET drawn == OnRow(output, row)
                  xs    == Crossings(polygonVertices, row)
              IN  /\ Len(drawn) = 1
                  /\ drawn[1].kind = "span"
                  /\ Nearest(drawn[1].xStart, Leftmost(xs))
                  /\ Nearest(drawn[1].xEnd, Rightmost(xs))

\* C5: for a polygon and its translate by k rows, both with all vertices on
\* rows of the table (so that no edge is clipped), fillPolygon on the
\* translate draws exactly what it draws on the polygon, every row shifted
\* by k.
C5_VerticalInvariance ==
    FillDone =>
        \A k \in ((0 - MaxY) .. MaxY) \ {0} :
            (RowsInside(polygonVertices, maxHeight)
                 /\ RowsInside(Shift(polygonVertices, k), maxHeight))
                => fillPolygon(Shift(polygonVertices, k), maxHeight, maxWidth, tieBreak)
                       = ShiftRows(output, k)

\* A polygon that can be moved one row up inside the table has been filled,
\* and a span was drawn.
C5_Witness ==
    /\ FillDone
    /\ output # << >>
    /\ RowsInside(polygonVertices, maxHeight)
    /\ RowsInside(Shift(polygonVertices, 1), maxHeight)

\* C6: a second call of fillPolygon (or of generateTriangulation) with the
\* same polygon and the same bounds as the call before it produces the same
\* output sequence as that call.
C6_RepeatedCallSameOutput ==
    (pc = "done" /\ previous.callee = callee)
        => /\ callee = "fill" => output = previous.output
           /\ callee = "triangulate" => triangles = previous.triangles

\* The same polygon has been triangulated twice, with a non-empty result.
C6_Witness ==
    /\ TriangulateDone
    /\ previous.callee = "triangulate"
    /\ previous.triangles # << >>

\* C9: with maxHeight = 0 both functions produce nothing and never enter the
\* scanline loop; with maxWidth = 0 fillPolygon emits no span and no point.
C9_ZeroExtentsEmpty ==
    /\ (maxHeight = 0 /\ callee # "none")
           => (output = << >> /\ triangles = << >> /\ pc # "scan")
    /\ (maxWidth = 0 /\ callee = "fill") => output = << >>

\* fillPolygon with maxWidth = 0 has come to the end of a polygon whose edge
\* pairs were processed on some row.
C9_Witness ==
    /\ FillDone
    /\ maxWidth = 0
    /\ maxHeight > 0
    /\ Len(polygonVertices) >= 3
    /\ \E row \in 0 .. (maxHeight - 1) : Len(edgeTable[row]) >= 2

\* C7: for every polygon of at least three vertices, the edge from the last
\* vertex back to the first is in the Edge Table, in the bucket of its start
\* row, whenever that start row is in [0, maxHeight).
C7_WrapEdgeInTable ==
    TableBuilt =>
        LET wrap == ExpectedEntry(polygonVertices, Len(polygonVertices), maxHeight)
        IN  wrap.row \in 0 .. (maxHeight - 1)
                => \E j \in 1 .. Len(edgeTable[wrap.row]) :
                       edgeTable[wrap.row][j] = wrap.edge

\* A table was built for a polygon whose closing edge is slanted, starts on
\* a row of the table, and is the only edge equal to its entry.
C7_Witness ==
    /\ TableBuilt
    /\ LET n    == Len(polygonVertices)
           wrap == ExpectedEntry(polygonVertices, n, maxHeight)
       IN  /\ wrap.row \in 0 .. (maxHeight - 1)
           /\ wrap.edge.inverseSlope.n # 0
           /\ \A k \in 1 .. (n - 1) :
                  ExpectedEntry(polygonVertices, k, maxHeight) # wrap

C10_OutOfRangeEdgesDropped ==
    TableBuilt =>
        /\ \A row \in 0 .. (maxHeight - 1) :
               edgeTable[row] = ExpectedBucket(polygonVertices, row, maxHeight)
        /\ (pc = "done" /\ \E row \in 0 .. (maxHeight - 1) : edgeTable[row] # << >>)
               => (activeEdgeTable = << >> /\ currentScanLine >= maxHeight)

\* A run has ended for a polygon of which an earlier edge starts outside the
\* table and a later edge was binned.
C10_Witness ==
    /\ TableBuilt
    /\ pc = "done"
    /\ \E k \in 1 .. Len(polygonVertices), j \in 1 .. Len(polygonVertices) :
          /\ k < j
          /\ ExpectedEntry(polygonVertices, k, maxHeight).row \notin 0 .. (maxHeight - 1)
          /\ ExpectedEntry(polygonVertices, j, maxHeight).row \in 0 .. (maxHeight - 1)

NonEmptyRows(table) == {row \in DOMAIN table : table[row] # << >>}

LowestRow(rows) == CHOOSE r \in rows : \A q \in rows : r <= q

\* What the entry into a call leaves behind: the loop is entered on the
\* lowest non-empty row, or not at all when the table has no such row.
EntersOnLowestRow ==
    (pc = "idle" /\ pc' # "idle")
        => IF NonEmptyRows(edgeTable') = {}
           THEN /\ pc' = "done"
                /\ callee' = "fill" => output' = << >>
                /\ callee' = "triangulate" => triangles' = << >>
           ELSE /\ pc' = "scan"
                /\ currentScanLine' = LowestRow(NonEmptyRows(edgeTable'))

StopsPastTable ==
    (pc = "done" /\ NonEmptyRows(edgeTable) # {})
        => (activeEdgeTable = << >> /\ currentScanLine >= maxHeight)

NothingWithoutRows ==
    (pc = "done" /\ callee # "none" /\ NonEmptyRows(edgeTable) = {})
        => /\ callee = "fill" => output = << >>
           /\ callee = "triangulate" => triangles = << >>

\* C11: the scanline loop of fillPolygon and of generateTriangulation starts
\* on the lowest non-empty row of the Edge Table, always comes to its end,
\* and at its end the AET is empty and the scanline is at or past maxHeight;
\* when the table has no non-empty row the loop is not entered and nothing
\* is emitted.
C11_Termination ==
    /\ [][EntersOnLowestRow]_vars
    /\ [](StopsPastTable /\ NothingWithoutRows)
    /\ (pc = "scan" ~> pc = "done")

\* A loop has ended beyond the table: an edge that reaches past the last row
\* kept it running.
C11_Witness ==
    /\ pc = "done"
    /\ NonEmptyRows(edgeTable) # {}
    /\ LowestRow(NonEmptyRows(edgeTable)) > 0
    /\ currentScanLine > maxHeight

\* A call run alone, from the state before a row for a number of iterations
\* of its loop.
RECURSIVE Alone(_, _, _, _, _, _, _, _, _)
Alone(kind, table, height, width, policy, row, aet, drawn, steps) ==
    IF steps = 0
    THEN [currentScanLine |-> row, activeEdgeTable |-> aet, drawn |-> drawn]
    ELSE LET sorted == RowEdges(aet, table, height, row, policy)
             more   == IF kind = "fill"
                       THEN FillRowOutput(sorted, row, height, width)
                       ELSE TriangulateRowOutput(sorted, row)
         IN  Alone(kind, table, height, width, policy, row + 1,
                   NextEdges(sorted, row), drawn \o more, steps - 1)

\* The locals of a call are those of the same call run alone up to the same
\* scanline, and its result at the end is the result of the call run alone.
AsAlone(kind, polygon, state, table, scanLine, aet, drawn) ==
    LET alone == buildEdgeTable(polygon, maxHeight)
        first == FirstNonEmptyRow(alone, maxHeight, 0)
        whole == IF kind = "fill"
                 THEN fillPolygon(polygon, maxHeight, maxWidth, tieBreak)
                 ELSE generateTriangulation(polygon, maxHeight, tieBreak)
    IN  /\ state \in {"scan", "done"} /\ Len(polygon) >= 3 => table = alone
        /\ state = "scan" =>
              LET here == Alone(kind, alone, maxHeight, maxWidth, tieBreak, first,
                                << >>, << >>, scanLine - first)
              IN  aet = here.activeEdgeTable /\ drawn = here.drawn
        /\ state = "done" => drawn = whole

\* C12: when the steps of two calls on different polygons are interleaved in
\* any order, the Edge Table, the AET and the output of each call are at
\* every moment those of that call run alone.
C12_InterleavedCallsAsAlone ==
    /\ callee # "none" =>
          AsAlone(callee, polygonVertices, pc, edgeTable, currentScanLine,
                  activeEdgeTable, IF callee = "fill" THEN output ELSE triangles)
    /\ second.callee # "none" =>
          AsAlone(second.callee, second.polygonVertices, second.pc, second.edgeTable,
                  second.currentScanLine, second.activeEdgeTable,
                  IF second.callee = "fill" THEN second.output ELSE second.triangles)

\* Both calls are inside their loops at once, each with active edges of its
\* own and each with rows already processed.
C12_Witness ==
    /\ pc = "scan"
    /\ second.pc = "scan"
    /\ activeEdgeTable # << >>
    /\ second.activeEdgeTable # << >>
    /\ activeEdgeTable # second.activeEdgeTable
    /\ edgeTable # second.edgeTable
    /\ (output # << >> \/ triangles # << >>)
    /\ (second.output # << >> \/ second.triangles # << >>)

\* What one FillRow step appended to the output.
Emitted == SubSeq(output', Len(output) + 1, Len(output'))

\* The x-sorted AET the step emitted from.
EmissionEdges == RowEdges(activeEdgeTable, edgeTable, maxHeight, currentScanLine, tieBreak')

FillRowStep == pc = "scan" /\ callee = "fill" /\ currentScanLine' = currentScanLine + 1

\* A pair of crossings wholly left of column 0 or wholly right of the last
\* column, or on a row past the table.
PairOutside(a, b, row) ==
    \/ row >= maxHeight
    \/ DLess(a.currentX, Double(0, 1)) /\ DLess(b.currentX, Double(0, 1))
    \/ ~DLess(a.currentX, Double(maxWidth, 1)) /\ ~DLess(b.currentX, Double(maxWidth, 1))

\* The span of one pair: the rounded crossings, ordered and clamped.
SpanOfPair(a, b, row) ==
    LET ra == RoundHalf(a.currentX)
        rb == RoundHalf(b.currentX)
        x1 == IF ra <= rb THEN ra ELSE rb
        x2 == IF ra <= rb THEN rb ELSE ra
        c1 == IF x1 < 0 THEN 0 ELSE x1
        c2 == IF x2 > maxWidth - 1 THEN maxWidth - 1 ELSE x2
    IN  IF PairOutside(a, b, row) \/ c1 > c2 \/ row < 0
        THEN << >>
        ELSE << [kind |-> "span", row |-> row, xStart |-> c1, xEnd |-> c2] >>

RECURSIVE SpansOfPairs(_, _, _)
SpansOfPairs(aet, k, row) ==
    IF k + 1 > Len(aet) THEN << >>
    ELSE SpanOfPair(aet[k], aet[k + 1], row) \o SpansOfPairs(aet, k + 2, row)

\* C13: the spans a row of fillPolygon emits are those of the pairs (0,1),
\* (2,3), ... of the x-sorted AET of the row, one per pair and in that
\* order; each has 0 <= xStart <= xEnd <= maxWidth - 1 and 0 <= row <
\* maxHeight; a pair wholly outside [0, maxWidth), or on a row at or past
\* maxHeight, gives no span.
C13_SpansFromPairs ==
    [][FillRowStep =>
          LET spans == SelectSeq(Emitted, LAMBDA e : e.kind = "span")
          IN  /\ spans = SpansOfPairs(EmissionEdges, 1, currentScanLine)
              /\ \A i \in 1 .. Len(spans) :
                     /\ 0 <= spans[i].xStart
                     /\ spans[i].xStart <= spans[i].xEnd
                     /\ spans[i].xEnd <= maxWidth - 1
                     /\ 0 <= spans[i].row
                     /\ spans[i].row < maxHeight]_vars

\* C14: on every row that fillPolygon processes with an odd number of edges
\* in the AET (1, 3, 5, ...), exactly one point is emitted, at the rounded x
\* of the last entry of the x-sorted AET, provided that x is in
\* [0, maxWidth) and the row in [0, maxHeight); otherwise no point.
C14_OddCountEmitsPoint ==
    [][(FillRowStep /\ Len(EmissionEdges) % 2 = 1) =>
          LET points == SelectSeq(Emitted, LAMBDA e : e.kind = "point")
              x      == RoundHalf(EmissionEdges[Len(EmissionEdges)].currentX)
          IN  IF x \in 0 .. (maxWidth - 1) /\ currentScanLine \in 0 .. (maxHeight - 1)
              THEN points = << [kind |-> "point", row |-> currentScanLine, x |-> x] >>
              ELSE points = << >>]_vars

\* The entry of the non-horizontal edge from vertex k to its successor under
\* the valley rule: one row and one slope step further if and only if both
\* neighbours of the lower end point are on a row strictly greater than its
\* own; otherwise at the lower end point.
ValleyEntry(polygon, k) ==
    LET a == polygon[k]
        b == Successor(polygon, k)
        down  == a.coordinateY < b.coordinateY
        lower == IF down THEN a ELSE b
        upper == IF down THEN b ELSE a
        before == IF down THEN Predecessor(polygon, k) ELSE a
        after  == IF down THEN b ELSE Successor(polygon, k + 1)
        slope == Double(upper.coordinateX - lower.coordinateX,
                        upper.coordinateY - lower.coordinateY)
        valley == /\ before.coordinateY > lower.coordinateY
                  /\ after.coordinateY > lower.coordinateY
        row == IF valley THEN lower.coordinateY + 1 ELSE lower.coordinateY
        x   == IF valley THEN DAdd(Double(lower.coordinateX, 1), slope)
                         ELSE Double(lower.coordinateX, 1)
    IN  [row  |-> row,
         edge |-> [maximumY     |-> upper.coordinateY,
                   currentX     |-> x,
                   inverseSlope |-> slope,
                   minimumY     |-> row]]

InBucket(table, row, edge) == \E j \in 1 .. Len(table[row]) : table[row][j] = edge

\* C15: a non-horizontal edge (here: one whose lower end point is on a row
\* of the table) is binned one row up and one slope step further if and only
\* if both neighbours of its lower end point are on a strictly greater row;
\* otherwise it is binned on the row of its lower end point with that
\* point's x.
C15_StartAdjustedOnlyInValley ==
    TableBuilt =>
        \A k \in 1 .. Len(polygonVertices) :
            LET a == polygonVertices[k].coordinateY
                b == Successor(polygonVertices, k).coordinateY
                lowerRow == IF a < b THEN a ELSE b
                entry == ValleyEntry(polygonVertices, k)
            IN  (a # b /\ lowerRow \in 0 .. (maxHeight - 1)
                       /\ entry.row \in 0 .. (maxHeight - 1))
                    => InBucket(edgeTable, entry.row, entry.edge)

\* C16: every non-horizontal edge whose adjusted start row (the row of its
\* lower end point, or one more in a valley) is in [0, maxHeight) is in the
\* bucket of that row; this includes an edge that leaves a valley on row -1,
\* whose adjusted row is 0.  (Edges whose lower end point has a neighbour on
\* its own row are left aside.)
C16_AdjustedRowInRangeIsBinned ==
    TableBuilt =>
        \A k \in 1 .. Len(polygonVertices) :
            LET a == polygonVertices[k]
                b == Successor(polygonVertices, k)
                down == a.coordinateY < b.coordinateY
                lowerRow == IF down THEN a.coordinateY ELSE b.coordinateY
                neighbour == IF down THEN Predecessor(polygonVertices, k)
                                     ELSE Successor(polygonVertices, k + 1)
                entry == ValleyEntry(polygonVertices, k)
            IN  (a.coordinateY # b.coordinateY
                     /\ neighbour.coordinateY # lowerRow
                     /\ entry.row \in 0 .. (maxHeight - 1))
                    => InBucket(edgeTable, entry.row, entry.edge)

\* The Edge Table without the entries of the horizontal edges, and what
\* fillPolygon draws from it.
TableWithoutHorizontal(polygon, height) ==
    LET slanted == {i \in EdgeIndices(polygon) :
                       VertexAt(polygon, i).coordinateY
                           # VertexAt(polygon, i + 1).coordinateY}
    IN  [row \in 0 .. (height - 1) |-> Bucket(polygon, height, row, slanted)]

DrawnWithoutHorizontal(polygon, height, width, policy) ==
    LET table == TableWithoutHorizontal(polygon, height)
        first == FirstNonEmptyRow(table, height, 0)
    IN  IF Len(polygon) < 3 \/ first >= height THEN << >>
        ELSE FillLoop(<< >>, table, height, width, first, policy)

SpanSet(drawn) == {drawn[i] : i \in {j \in 1 .. Len(drawn) : drawn[j].kind = "span"}}

\* C17: no entry of zero extent (as a horizontal edge has) is in the AET
\* once the scanline has advanced past its row, and the set of spans
\* fillPolygon emits is the set it emits when the horizontal edges are not
\* put into the Edge Table.
C17_HorizontalEdgesChangeNoSpan ==
    /\ \A j \in 1 .. Len(activeEdgeTable) :
           activeEdgeTable[j].maximumY # activeEdgeTable[j].minimumY
    /\ FillDone =>
           SpanSet(output)
               = SpanSet(DrawnWithoutHorizontal(polygonVertices, maxHeight, maxWidth,
                                                tieBreak))

TriangulateRowStep ==
    pc = "scan" /\ callee = "triangulate" /\ currentScanLine' = currentScanLine + 1

\* What one TriangulateRow step appended to the result.
Appended == SubSeq(triangles', Len(triangles) + 1, Len(triangles'))

\* A vertex of the result: Point2D has int coordinates, the x is cut to int.
Corner(x, y) == [coordinateX |-> ToInt(x), coordinateY |-> y]

\* C18: a row that generateTriangulation processes with k >= 2 edges in the
\* x-sorted AET appends exactly 2 * floor(k / 2) triangles: for the pair
\* (A, B) at positions (0,1), (2,3), ... first ((xA,y), (xB,y),
\* (xA+slopeA,y+1)), then ((xB,y), (xB+slopeB,y+1), (xA+slopeA,y+1)); a row
\* with fewer than 2 edges appends nothing.
C18_TwoTrianglesPerPair ==
    [][TriangulateRowStep =>
          LET edges == EmissionEdges
              pairs == Len(edges) \div 2
              y     == currentScanLine
          IN  /\ Len(Appended) = 2 * pairs
              /\ \A i \in 1 .. pairs :
                     LET A == edges[2 * i - 1]
                         B == edges[2 * i]
                         nextA == DAdd(A.currentX, A.inverseSlope)
                         nextB == DAdd(B.currentX, B.inverseSlope)
                     IN  /\ Appended[2 * i - 1]
                               = << Corner(A.currentX, y), Corner(B.currentX, y),
                                    Corner(nextA, y + 1) >>
                         /\ Appended[2 * i]
                               = << Corner(B.currentX, y), Corner(nextB, y + 1),
                                    Corner(nextA, y + 1) >>]_vars

\* A triangulation has ended in which one row gave two pairs of triangles
\* and another row a single pair.
C18_Witness ==
    /\ TriangulateDone
    /\ \E i \in 1 .. Len(triangles) :
          Cardinality({j \in 1 .. Len(triangles) :
                          triangles[j][1].coordinateY = triangles[i][1].coordinateY}) = 4
    /\ \E i \in 1 .. Len(triangles) :
          Cardinality({j \in 1 .. Len(triangles) :
                          triangles[j][1].coordinateY = triangles[i][1].coordinateY}) = 2

\* One call is fillPolygon, the other generateTriangulation, on the same
\* outline and maxHeight.
FillAndTriangulate ==
    /\ second.polygonVertices = polygonVertices
    /\ (callee = "fill" /\ second.callee = "triangulate")
           \/ (callee = "triangulate" /\ second.callee = "fill")

\* C19: for the same polygon and maxHeight the loop of fillPolygon and the
\* loop of generateTriangulation work on the same table, start no lower than
\* its lowest non-empty row, hold the same AET (same edges, same x, same
\* order) whenever they are on the same row, and stop on the same row.
C19_SameCore ==
    FillAndTriangulate =>
        /\ edgeTable = second.edgeTable
        /\ (pc = "scan" /\ second.pc = "scan"
                /\ currentScanLine = second.currentScanLine)
               => activeEdgeTable = second.activeEdgeTable
        /\ (pc = "scan" /\ second.pc = "scan")
               => /\ currentScanLine >= LowestRow(NonEmptyRows(edgeTable))
                  /\ second.currentScanLine >= LowestRow(NonEmptyRows(edgeTable))
        /\ (pc = "scan" /\ second.pc = "done")
               => currentScanLine < second.currentScanLine
        /\ (pc = "done" /\ second.pc = "scan")
               => second.currentScanLine < currentScanLine
        /\ (pc = "done" /\ second.pc = "done")
               => currentScanLine = second.currentScanLine

\* Both loops stand before the same row, past their first, with the same
\* two or more edges active, and both have emitted.
C19_Witness ==
    /\ FillAndTriangulate
    /\ pc = "scan"
    /\ second.pc = "scan"
    /\ currentScanLine = second.currentScanLine
    /\ currentScanLine > LowestRow(NonEmptyRows(edgeTable))
    /\ Len(activeEdgeTable) >= 2
    /\ \E j \in 1 .. Len(activeEdgeTable) : activeEdgeTable[j].inverseSlope.n # 0
    /\ (output # << >> \/ second.output # << >>)
    /\ (triangles # << >> \/ second.triangles # << >>)

\* ---------------------------------------------------------------------------
\* C20
\* ---------------------------------------------------------------------------

\* The number of entries of all the buckets of a table.
RECURSIVE EntriesFrom(_, _)
EntriesFrom(table, rows) ==
    IF rows = {} THEN 0
    ELSE LET row == CHOOSE r \in rows : TRUE
         IN  Len(table[row]) + EntriesFrom(table, rows \ {row})

\* An entry after the given number of x steps.
RECURSIVE Walked(_, _)
Walked(edge, steps) ==
    IF steps = 0 THEN edge
    ELSE Walked([edge EXCEPT !.currentX = DAdd(@, edge.inverseSlope)], steps - 1)

\* How many elements of a sequence satisfy Is(_).
CountOf(seq, Is(_)) == Cardinality({j \in 1 .. Len(seq) : Is(seq[j])})

\* One entry per edge at most, each in the bucket of its own yMin.
OneEntryInOwnBucket ==
    TableBuilt =>
        /\ EntriesFrom(edgeTable, DOMAIN edgeTable) <= Len(polygonVertices)
        /\ \A row \in DOMAIN edgeTable : \A j \in 1 .. Len(edgeTable[row]) :
               edgeTable[row][j].minimumY = row

\* Every active edge is an entry of the bucket of its yMin, walked one x step
\* per row since that row, and is active no more often than it was binned.
ActiveEdgesWalkedForward ==
    pc = "scan" =>
        \A j \in 1 .. Len(activeEdgeTable) :
            LET edge  == activeEdgeTable[j]
                steps == currentScanLine - edge.minimumY
                Same(e) == e = edge
                Origin(e) == Walked(e, steps) = edge
            IN  /\ edge.minimumY \in DOMAIN edgeTable
                /\ steps >= 1
                /\ edge.maximumY > currentScanLine
                /\ CountOf(activeEdgeTable, Same)
                       <= CountOf(edgeTable[edge.minimumY], Origin)

\* One row of either call: the scanline goes up by one, and every edge active
\* afterwards was active before or comes from the bucket of this very row,
\* advanced by one x step.
RowStepWalksForward ==
    LET row     == currentScanLine
        entered == IF row \in DOMAIN edgeTable THEN edgeTable[row] ELSE << >>
        before  == activeEdgeTable \o entered
    IN  pc = "scan" =>
            /\ currentScanLine' = row + 1
            /\ edgeTable' = edgeTable
            /\ Len(activeEdgeTable') <= Len(before)
            /\ \A j \in 1 .. Len(activeEdgeTable') :
                   \E i \in 1 .. Len(before) :
                       activeEdgeTable'[j] = Walked(before[i], 1)

\* C20: each polygon edge yields at most one Edge Table entry, placed in the
\* single bucket whose row index is the entry's own (adjusted) yMin; once in
\* the AET an edge is only advanced, one x step per row while the scanline
\* goes up by one per step, and it is never inserted again after its removal.
C20_EdgesWalkedForwardOnce ==
    /\ [](OneEntryInOwnBucket /\ ActiveEdgesWalkedForward)
    /\ [][RowStepWalksForward]_vars

\* A slanted edge that has been advanced since it entered, after another
\* edge was removed.
C20_Witness ==
    /\ pc = "scan"
    /\ TableBuilt
    /\ \E j \in 1 .. Len(activeEdgeTable) :
           /\ currentScanLine - activeEdgeTable[j].minimumY >= 1
           /\ activeEdgeTable[j].inverseSlope.n # 0
    /\ \E row \in DOMAIN edgeTable : \E j \in 1 .. Len(edgeTable[row]) :
           edgeTable[row][j].maximumY <= currentScanLine

\* ---------------------------------------------------------------------------
\* C21
\* ---------------------------------------------------------------------------

\* C21: yMax is an exclusive upper bound: at the emission point of every
\* scanline row y of fillPolygon, every edge in the AET has y < yMax.
C21_ActiveEdgesBelowYMax ==
    [][FillRowStep =>
          \A j \in 1 .. Len(EmissionEdges) :
              currentScanLine < EmissionEdges[j].maximumY]_vars

\* ---------------------------------------------------------------------------
\* C22
\* ---------------------------------------------------------------------------

\* The integer nearest to a double; a value half way between two integers
\* goes up ("up") or away from zero ("away").
RoundNearest(a, tie) ==
    LET up == DAdd(a, Double(1, 2)).n \div DAdd(a, Double(1, 2)).d
    IN  IF tie = "away" /\ a.n < 0 /\ a.d = 2 THEN up - 1 ELSE up

\* The span of one pair under rounding to nearest: ordered, clamped to
\* [0, maxWidth - 1]; none if both ends round to a negative integer.
NearestSpanOfPair(a, b, row, tie) ==
    LET ra == RoundNearest(a.currentX, tie)
        rb == RoundNearest(b.currentX, tie)
        x1 == IF ra <= rb THEN ra ELSE rb
        x2 == IF ra <= rb THEN rb ELSE ra
        c1 == IF x1 < 0 THEN 0 ELSE x1
        c2 == IF x2 > maxWidth - 1 THEN maxWidth - 1 ELSE x2
    IN  IF x2 < 0 \/ c1 > c2 \/ row < 0 \/ row >= maxHeight
        THEN << >>
        ELSE << [kind |-> "span", row |-> row, xStart |-> c1, xEnd |-> c2] >>

RECURSIVE NearestSpansOfPairs(_, _, _, _)
NearestSpansOfPairs(aet, k, row, tie) ==
    IF k + 1 > Len(aet) THEN << >>
    ELSE NearestSpanOfPair(aet[k], aet[k + 1], row, tie)
         \o NearestSpansOfPairs(aet, k + 2, row, tie)

\* C22: the x end points of every span fillPolygon emits are the two
\* crossing x values of its pair rounded to the nearest integer, then ordered
\* and clamped to [0, maxWidth - 1]; a pair whose two crossings both round to
\* a negative integer emits no span.
C22_SpanEndsRoundedToNearest ==
    [][FillRowStep =>
          LET spans == SelectSeq(Emitted, LAMBDA e : e.kind = "span")
          IN  \E tie \in {"up", "away"} :
                  spans = NearestSpansOfPairs(EmissionEdges, 1, currentScanLine, tie)]_vars

\* ---------------------------------------------------------------------------
\* C23
\* ---------------------------------------------------------------------------

\* xAtYMin + (row - yMin) * inverseSlope of a table entry.
ClosedFormX(entry, row) ==
    Double(entry.currentX.n * entry.inverseSlope.d
               + (row - entry.minimumY) * entry.inverseSlope.n * entry.currentX.d,
           entry.currentX.d * entry.inverseSlope.d)

\* C23: in exact arithmetic, every edge in the AET at the emission point of
\* row y of fillPolygon has currentX = xAtYMin + (y - yMin) * inverseSlope,
\* for the (adjusted) yMin and xAtYMin of an entry of the bucket it was
\* binned in.
C23_SteppingEqualsClosedForm ==
    [][FillRowStep =>
          \A j \in 1 .. Len(EmissionEdges) :
              LET edge == EmissionEdges[j]
              IN  /\ edge.minimumY \in DOMAIN edgeTable
                  /\ \E i \in 1 .. Len(edgeTable[edge.minimumY]) :
                         LET entry == edgeTable[edge.minimumY][i]
                         IN  /\ entry.maximumY = edge.maximumY
                             /\ entry.inverseSlope = edge.inverseSlope
                             /\ edge.currentX = ClosedFormX(entry, currentScanLine)]_vars

\* fillPolygon stands before the emission of a row with a slanted edge that
\* entered on an earlier row and has left the x it was binned with.
C23_Witness ==
    /\ pc = "scan"
    /\ callee = "fill"
    /\ \E j \in 1 .. Len(activeEdgeTable) :
           LET edge == activeEdgeTable[j]
           IN  /\ edge.inverseSlope.n # 0
               /\ edge.minimumY < currentScanLine
               /\ edge.maximumY > currentScanLine
               /\ \A i \in 1 .. Len(edgeTable[edge.minimumY]) :
                      edgeTable[edge.minimumY][i].currentX # edge.currentX

\* ---------------------------------------------------------------------------
\* C24
\* ---------------------------------------------------------------------------

\* A closed outline without a horizontal edge, all of whose vertices are on
\* rows 0 .. maxHeight - 2.
SlantedInsideTable ==
    /\ Len(polygonVertices) >= 3
    /\ HorizontalEdges(polygonVertices) = {}
    /\ \A k \in 1 .. Len(polygonVertices) :
           /\ 0 <= polygonVertices[k].coordinateY
           /\ polygonVertices[k].coordinateY < maxHeight - 1

\* C24: for every closed polygon, simple or not, without a horizontal edge
\* and with all vertices on rows in [0, maxHeight - 1), the AET holds an even
\* number of edges at the emission point of every row of fillPolygon, and no
\* unpaired point is emitted.
C24_EvenActiveEdges ==
    [][(FillRowStep /\ SlantedInsideTable) =>
          /\ Len(EmissionEdges) % 2 = 0
          /\ \A i \in 1 .. Len(Emitted) : Emitted[i].kind # "point"]_vars

\* ---------------------------------------------------------------------------
\* C25
\* ---------------------------------------------------------------------------

\* The one-to-one maps of 1 .. n onto itself.
Rearrangements(n) ==
    {perm \in [1 .. n -> 1 .. n] : \A a, b \in 1 .. n : a # b => perm[a] # perm[b]}

\* Every order of the edges in which currentX is ascending: all the results
\* a sort by x alone may give.
AscendingOrders(aet) ==
    {order \in {[j \in 1 .. Len(aet) |-> aet[perm[j]]] :
                    perm \in Rearrangements(Len(aet))} :
        \A j \in 1 .. Len(order) - 1 :
            ~DLess(order[j + 1].currentX, order[j].currentX)}

\* The edges the sort of this row is given.
UnsortedEdges == MoveEdges(activeEdgeTable, edgeTable, maxHeight, currentScanLine)

\* C25: the output of fillPolygon does not depend on how the sort orders AET
\* edges of equal current x: on every row, every x-ascending order of the AET
\* yields the spans and the point that were emitted.
C25_OutputIndependentOfTieOrder ==
    [][FillRowStep =>
          \A order \in AscendingOrders(UnsortedEdges) :
              FillRowOutput(order, currentScanLine, maxHeight, maxWidth) = Emitted]_vars

\* fillPolygon has emitted from a row on which the sort met two edges of
\* equal x that differ otherwise, and the build's order for them is known.
C25_Witness ==
    /\ callee = "fill"
    /\ pc \in {"scan", "done"}
    /\ tieBreak \in {"insertion", "reversed"}
    /\ output # << >>
    /\ \E row \in DOMAIN edgeTable : \E i, j \in 1 .. Len(edgeTable[row]) :
           /\ edgeTable[row][i].currentX = edgeTable[row][j].currentX
           /\ edgeTable[row][i] # edgeTable[row][j]
           /\ row < currentScanLine

\* ---------------------------------------------------------------------------
\* C26
\* ---------------------------------------------------------------------------

\* C26: every triangle generateTriangulation returns has its base row, the
\* row of its first vertex, in [0, maxHeight), also when an edge that starts
\* inside the table ends on a row at or past maxHeight.
C26_TrianglesInsideTable ==
    callee = "triangulate" =>
        \A i \in 1 .. Len(triangles) :
            /\ 0 <= triangles[i][1].coordinateY
            /\ triangles[i][1].coordinateY < maxHeight

\* ---------------------------------------------------------------------------
\* C27
\* ---------------------------------------------------------------------------

\* The edges of the for loop for which push_back is called.
Pushed(polygon, height) ==
    IF Len(polygon) < 2 THEN {}
    ELSE {i \in EdgeIndices(polygon) : EdgeOf(polygon, i, height).binned}

\* C27: buildEdgeTable never indexes the Edge Table outside [0, maxHeight):
\* for every polygon, vertices on negative rows or on rows at or past
\* maxHeight included, and every maxHeight >= 0, each push_back targets a
\* bucket i with 0 <= i < maxHeight, every push is in the returned table, and
\* the table has exactly maxHeight buckets.
C27_PushesInsideTable ==
    TableBuilt =>
        /\ DOMAIN edgeTable = 0 .. (maxHeight - 1)
        /\ \A i \in Pushed(polygonVertices, maxHeight) :
               /\ 0 <= EdgeOf(polygonVertices, i, maxHeight).row
               /\ EdgeOf(polygonVertices, i, maxHeight).row < maxHeight
        /\ EntriesFrom(edgeTable, DOMAIN edgeTable)
               = Cardinality(Pushed(polygonVertices, maxHeight))

\* A table was built from an outline with one edge pushed and another whose
\* lower end is on the last row of the table and whose start was moved to
\* the row past it, so that it was not pushed.
C27_Witness ==
    /\ TableBuilt
    /\ maxHeight > 0
    /\ Pushed(polygonVertices, maxHeight) # {}
    /\ \E i \in EdgeIndices(polygonVertices) :
           /\ EdgeOf(polygonVertices, i, maxHeight).row = maxHeight
           /\ ~EdgeOf(polygonVertices, i, maxHeight).binned
           /\ VertexAt(polygonVertices, i).coordinateY
                  # VertexAt(polygonVertices, i + 1).coordinateY
           /\ \/ VertexAt(polygonVertices, i).coordinateY = maxHeight - 1
              \/ VertexAt(polygonVertices, i + 1).coordinateY = maxHeight - 1

-----------------------------------------------------------------------------
(* The 2D editor: EventHandler.                                            *)

\* Bounds of the editor model.
MaxVertices == 4
MaxSaved == 1
MaxThickness == 2

\* The drawing area of the window (WindowDimensions).
DrawingAreaWidth == 800
DrawingAreaHeight == 700

\* The numbers of handleMouseClick and initializeButtons.
PaletteLeft == 10
PaletteRight == 170
PaletteTop == 460
PaletteBottom == 620
PaletteCell == 40
PaletteColumns == 4
PaletteColors == 16
ButtonLeft == 10
ButtonTop == 20
ButtonWidth == 180
ButtonHeight == 50
ButtonSpacing == 60
ButtonCount == 7

\* The editor as one value: what the handlers read and write.
Editor ==
    [currentApplicationState |-> currentApplicationState,
     vertexCount             |-> vertexCount,
     polygonClosed           |-> polygonClosed,
     savedPolygonCount       |-> savedPolygonCount,
     visualConfiguration     |-> visualConfiguration,
     polygonColors           |-> polygonColors,
     selectedColorIndex      |-> selectedColorIndex,
     needsRedraw             |-> needsRedraw]

\* PolygonManager, as its callers use it.
addVertex(e, reopens) ==
    [e EXCEPT !.vertexCount = @ + 1,
              !.polygonClosed = IF reopens THEN FALSE ELSE @]

closePolygon(e) == [e EXCEPT !.polygonClosed = TRUE]

clearPolygon(e) == [e EXCEPT !.vertexCount = 0, !.polygonClosed = FALSE]

canBeFilled(e) == e.polygonClosed /\ e.vertexCount >= 3

saveCurrentPolygon(e) == [e EXCEPT !.savedPolygonCount = @ + 1]

toggleVertexVisibility(e) ==
    [e EXCEPT !.visualConfiguration.showVertices = ~@]

adjustLineThickness(e, increase) ==
    [e EXCEPT !.visualConfiguration.lineThickness =
        IF increase
        THEN (IF @ < MaxThickness THEN @ + 1 ELSE @)
        ELSE (IF @ > 1 THEN @ - 1 ELSE @)]

setPaletteColors(e, colorIndex) ==
    [e EXCEPT !.polygonColors = [fill |-> [from |-> "palette", index |-> colorIndex],
                                 line |-> [from |-> "palette", index |-> colorIndex]]]

applyPresetFillColor(e, preset) ==
    [e EXCEPT !.polygonColors.fill = [from |-> "preset", index |-> preset]]

\* Button i of initializeButtons, and Button::isPointInside.
ButtonY(i) == ButtonTop + i * ButtonSpacing

isPointInside(i, mouseX, mouseY) ==
    /\ mouseX >= DrawingAreaWidth + ButtonLeft
    /\ mouseX <= DrawingAreaWidth + ButtonLeft + ButtonWidth
    /\ mouseY >= ButtonY(i)
    /\ mouseY <= ButtonY(i) + ButtonHeight

\* Fault: button 0 closes the polygon whatever its number of vertices.
CloseAllowedAlways(e) == TRUE

\* The test in front of each of the three ways to close the polygon.
CloseAllowed(e) == e.vertexCount >= 3

handleButtonClick(e, buttonIndex) ==
    CASE buttonIndex = 0 ->
            IF CloseAllowed(e)
            THEN [closePolygon(e) EXCEPT !.currentApplicationState = "POLYGON_READY"]
            ELSE e
      [] buttonIndex = 1 ->
            [clearPolygon(e) EXCEPT !.currentApplicationState = "DRAWING_POLYGON"]
      [] buttonIndex = 2 ->
            IF canBeFilled(e)
            THEN [e EXCEPT !.currentApplicationState = "POLYGON_FILLED"]
            ELSE e
      [] buttonIndex = 3 -> toggleVertexVisibility(e)
      [] buttonIndex = 4 -> adjustLineThickness(e, TRUE)
      [] buttonIndex = 5 -> adjustLineThickness(e, FALSE)
      [] buttonIndex = 6 ->
            IF canBeFilled(e)
            THEN [clearPolygon(saveCurrentPolygon(e))
                     EXCEPT !.currentApplicationState = "DRAWING_POLYGON"]
            ELSE e
      [] OTHER -> e

\* The click is in the drawing area.
InDrawingArea(mouseX, mouseY) ==
    mouseX < DrawingAreaWidth /\ mouseY < DrawingAreaHeight

\* The click is taken for a click on the palette.
InPalette(mouseX, mouseY) ==
    /\ mouseX >= DrawingAreaWidth + PaletteLeft
    /\ mouseX <= DrawingAreaWidth + PaletteRight
    /\ mouseY >= PaletteTop
    /\ mouseY <= PaletteBottom

\* colorIndex of a palette click; both differences are >= 0 there.
PaletteIndex(mouseX, mouseY) ==
    LET colorX == (mouseX - (DrawingAreaWidth + PaletteLeft)) \div PaletteCell
        colorY == (mouseY - PaletteTop) \div PaletteCell
    IN  colorY * PaletteColumns + colorX

\* The buttons under the click; the loop takes the first.
ButtonsAt(mouseX, mouseY) ==
    {i \in 0 .. (ButtonCount - 1) : isPointInside(i, mouseX, mouseY)}

FirstOf(indices) == CHOOSE i \in indices : \A j \in indices : i <= j

\* handleMouseClick (lines 155-207), windowDimensions set.
MouseClickResult(e, mouseX, mouseY, isRightButton, reopens) ==
    LET handled ==
            IF InDrawingArea(mouseX, mouseY)
            THEN IF ~isRightButton
                 THEN [addVertex(e, reopens)
                          EXCEPT !.currentApplicationState = "DRAWING_POLYGON"]
                 ELSE IF CloseAllowed(e)
                      THEN [closePolygon(e)
                               EXCEPT !.currentApplicationState = "POLYGON_READY"]
                      ELSE e
            ELSE IF InPalette(mouseX, mouseY)
                 THEN LET colorIndex == PaletteIndex(mouseX, mouseY)
                      IN  IF colorIndex >= 0 /\ colorIndex < PaletteColors
                          THEN [setPaletteColors(e, colorIndex)
                                   EXCEPT !.selectedColorIndex = colorIndex]
                          ELSE e
                 ELSE IF ButtonsAt(mouseX, mouseY) # {}
                      THEN handleButtonClick(e, FirstOf(ButtonsAt(mouseX, mouseY)))
                      ELSE e
    IN  [handled EXCEPT !.needsRedraw = TRUE]

\* handleKeyboardInput (lines 279-373).
KeyboardResult(e, keyCode) ==
    LET handled ==
            CASE keyCode \in {"f", "F"} ->
                    IF CloseAllowed(e)
                    THEN [closePolygon(e) EXCEPT !.currentApplicationState = "POLYGON_READY"]
                    ELSE e
              [] keyCode \in {"c", "C"} ->
                    [clearPolygon(e) EXCEPT !.currentApplicationState = "DRAWING_POLYGON"]
              [] keyCode \in {"p", "P"} ->
                    IF canBeFilled(e)
                    THEN [e EXCEPT !.currentApplicationState = "POLYGON_FILLED"]
                    ELSE e
              [] keyCode \in {"v", "V"} -> toggleVertexVisibility(e)
              [] keyCode \in {"+", "="} -> adjustLineThickness(e, TRUE)
              [] keyCode = "-" -> adjustLineThickness(e, FALSE)
              [] keyCode = "1" -> applyPresetFillColor(e, 1)
              [] keyCode = "2" -> applyPresetFillColor(e, 2)
              [] keyCode = "3" -> applyPresetFillColor(e, 3)
              [] keyCode = "4" -> applyPresetFillColor(e, 4)
              [] keyCode = "5" -> applyPresetFillColor(e, 5)
              [] keyCode = "6" -> applyPresetFillColor(e, 6)
              [] keyCode \in {"s", "S"} ->
                    IF canBeFilled(e)
                    THEN [clearPolygon(saveCurrentPolygon(e))
                             EXCEPT !.currentApplicationState = "DRAWING_POLYGON"]
                    ELSE e
              [] OTHER -> e
    IN  [handled EXCEPT !.needsRedraw = TRUE]

\* The editor becomes e.
EditorBecomes(e) ==
    /\ currentApplicationState' = e.currentApplicationState
    /\ vertexCount' = e.vertexCount
    /\ polygonClosed' = e.polygonClosed
    /\ savedPolygonCount' = e.savedPolygonCount
    /\ visualConfiguration' = e.visualConfiguration
    /\ polygonColors' = e.polygonColors
    /\ selectedColorIndex' = e.selectedColorIndex
    /\ needsRedraw' = e.needsRedraw

\* The counters of the model stay within its bounds.
WithinEditorBounds(e) ==
    e.vertexCount <= MaxVertices /\ e.savedPolygonCount <= MaxSaved

\* WM_LBUTTONDOWN and WM_RBUTTONDOWN.
handleMouseClick(mouseX, mouseY, isRightButton) ==
    /\ \E reopens \in IF InDrawingArea(mouseX, mouseY) /\ ~isRightButton
                       THEN BOOLEAN ELSE {FALSE} :
          LET e == MouseClickResult(Editor, mouseX, mouseY, isRightButton, reopens)
          IN  WithinEditorBounds(e) /\ EditorBecomes(e)
    /\ UNCHANGED << fillVars, sceneVars >>

\* WM_KEYDOWN.
handleKeyboardInput(keyCode) ==
    /\ LET e == KeyboardResult(Editor, keyCode)
       IN  WithinEditorBounds(e) /\ EditorBecomes(e)
    /\ UNCHANGED << fillVars, sceneVars >>

\* WM_PAINT: the window is drawn from the editor's state.
handlePaintEvent ==
    /\ needsRedraw
    /\ needsRedraw' = FALSE
    /\ UNCHANGED << currentApplicationState, vertexCount, polygonClosed,
                    savedPolygonCount, visualConfiguration, polygonColors,
                    selectedColorIndex, fillVars, sceneVars >>

\* The clicks and keys of the model: a point of the drawing area, the columns
\* on both sides of the palette's left and right edge and one inside it, the
\* rows on both sides of its top and bottom edge and the first row of its
\* last line of cells, and a point inside each button.
MouseXs ==
    {1} \cup {DrawingAreaWidth + dx :
                 dx \in {PaletteLeft - 1, PaletteLeft, PaletteLeft + 2 * PaletteCell + 10,
                         PaletteRight, PaletteRight + 1}}

MouseYs ==
    {1, PaletteTop - 1, PaletteTop, PaletteBottom - PaletteCell,
     PaletteBottom, PaletteBottom + 1}
    \cup {ButtonY(i) + ButtonHeight \div 2 : i \in 0 .. (ButtonCount - 1)}

\* One key of every case of the switch, both spellings of the key that
\* closes the polygon, the first and the last preset, and a key without a case.
Keys == {"f", "F", "c", "p", "v", "+", "-", "1", "6", "s", "x"}

MouseClick ==
    \E mouseX \in MouseXs, mouseY \in MouseYs, isRightButton \in BOOLEAN :
        handleMouseClick(mouseX, mouseY, isRightButton)

KeyPress == \E keyCode \in Keys : handleKeyboardInput(keyCode)

EditorNext == MouseClick \/ KeyPress \/ handlePaintEvent

\* No call of the fill algorithm is under way while the editor is driven.
EditorInit == Start({<< >>}, {<< DrawingAreaHeight, DrawingAreaWidth >>}, 0)

EditorSpec == EditorInit /\ [][EditorNext]_vars

-----------------------------------------------------------------------------
(* The 3D scene: SceneManager.                                             *)

MaxObjects == 2

\* The name glCreateProgram gives the Phong program when it is created.
PhongHandle == 1

LightingModels == {"FLAT", "GOURAUD", "PHONG"}

ProjectionTypes == {"PERSPECTIVE", "ORTHOGRAPHIC"}

ObjectTypes == {"CUBE", "SPHERE", "CYLINDER", "PYRAMID"}

\* init (lines 73-87).  loadExtensions succeeds or not; createShaderProgram
\* returns the name of the program, or 0 when it could not build one.
init ==
    /\ \E extensions \in BOOLEAN, program \in {0, PhongHandle} :
          IF extensions
          THEN phongProgram' = program /\ shadersLoaded' = TRUE
          ELSE UNCHANGED << phongProgram, shadersLoaded >>
    /\ UNCHANGED << currentLightingModel, currentProjection, currentObjectType,
                    objectCount, programInUse, fillVars, uiVars >>

\* Fault: the model is stored as asked for.
LightingModelAsAsked(model, loaded) == model

\* currentLightingModel after setLightingModel(model) (lines 188-194).
LightingModelAfter(model, loaded) ==
    IF model = "PHONG" /\ ~loaded THEN "GOURAUD" ELSE model

setLightingModel(model) ==
    /\ currentLightingModel' = LightingModelAfter(model, shadersLoaded)
    /\ UNCHANGED << shadersLoaded, phongProgram, currentProjection, currentObjectType,
                    objectCount, programInUse, fillVars, uiVars >>

setProjection(proj) ==
    /\ currentProjection' = proj
    /\ UNCHANGED << currentLightingModel, shadersLoaded, phongProgram,
                    currentObjectType, objectCount, programInUse, fillVars, uiVars >>

setObjectType(type) ==
    /\ currentObjectType' = type
    /\ UNCHANGED << currentLightingModel, shadersLoaded, phongProgram,
                    currentProjection, objectCount, programInUse, fillVars, uiVars >>

addObject ==
    /\ objectCount < MaxObjects
    /\ objectCount' = objectCount + 1
    /\ UNCHANGED << currentLightingModel, shadersLoaded, phongProgram,
                    currentProjection, currentObjectType, programInUse, fillVars, uiVars >>

clearObjects ==
    /\ objectCount' = 0
    /\ UNCHANGED << currentLightingModel, shadersLoaded, phongProgram,
                    currentProjection, currentObjectType, programInUse, fillVars, uiVars >>

\* The program render draws the objects with (lines 267-271).
ProgramOfRender == IF currentLightingModel = "PHONG" THEN phongProgram ELSE 0

render ==
    /\ programInUse' = ProgramOfRender
    /\ UNCHANGED << currentLightingModel, shadersLoaded, phongProgram,
                    currentProjection, currentObjectType, objectCount, fillVars, uiVars >>

SceneNext ==
    \/ init
    \/ \E model \in LightingModels : setLightingModel(model)
    \/ \E proj \in ProjectionTypes : setProjection(proj)
    \/ \E type \in ObjectTypes : setObjectType(type)
    \/ addObject
    \/ clearObjects
    \/ render

\* The scene after the constructor; no call of the fill algorithm under way.
SceneStart == Start({<< >>}, {<< 0, 0 >>}, 0)

SceneSpec == SceneStart /\ [][SceneNext]_vars

\* ---------------------------------------------------------------------------
\* C28
\* ---------------------------------------------------------------------------

\* What the editor becomes by each request to close the polygon: a right
\* click in the drawing area, the key F, a click on button 0.
CloseRequestResults ==
    {MouseClickResult(Editor, click[1], click[2], TRUE, FALSE) :
        click \in {c \in MouseXs \X MouseYs : InDrawingArea(c[1], c[2])}}
    \cup {KeyboardResult(Editor, "f"), KeyboardResult(Editor, "F")}
    \cup {MouseClickResult(Editor, click[1], click[2], click[3], FALSE) :
             click \in {c \in MouseXs \X MouseYs \X BOOLEAN :
                           /\ ~InDrawingArea(c[1], c[2])
                           /\ ~InPalette(c[1], c[2])
                           /\ ButtonsAt(c[1], c[2]) # {}
                           /\ FirstOf(ButtonsAt(c[1], c[2])) = 0}}

\* C28: after any sequence of mouse clicks, button clicks and key presses
\* handled by EventHandler the application state is POLYGON_READY only if
\* the current polygon has at least 3 vertices, and every close request made
\* with fewer than 3 vertices leaves the state unchanged.
C28_ReadyOnlyWithThreeVertices ==
    /\ currentApplicationState = "POLYGON_READY" => vertexCount >= 3
    /\ vertexCount < 3 =>
          \A e \in CloseRequestResults :
              e.currentApplicationState = currentApplicationState

\* The polygon was closed, filled, saved, and a second one has been closed.
C28_Witness ==
    /\ currentApplicationState = "POLYGON_READY"
    /\ vertexCount >= 3
    /\ polygonClosed
    /\ savedPolygonCount >= 1

\* ---------------------------------------------------------------------------
\* C29
\* ---------------------------------------------------------------------------

\* C29: every click that handleMouseClick takes for a palette click and
\* that changes selectedColorIndex selects index 4 * row + col, where
\* col = (mouseX - drawingAreaWidth - 10) / 40 and row = (mouseY - 460) / 40
\* are both in 0 .. 3: the colour of the grid cell under the cursor.
C29_PaletteClickSelectsCellUnderCursor ==
    [][\A mouseX \in MouseXs, mouseY \in MouseYs, isRightButton \in BOOLEAN :
          (/\ InPalette(mouseX, mouseY)
           /\ handleMouseClick(mouseX, mouseY, isRightButton)
           /\ selectedColorIndex' # selectedColorIndex)
          => LET col == (mouseX - DrawingAreaWidth - 10) \div 40
                 row == (mouseY - 460) \div 40
             IN  /\ col \in 0 .. 3
                 /\ row \in 0 .. 3
                 /\ selectedColorIndex' = 4 * row + col]_vars

\* ---------------------------------------------------------------------------
\* C30
\* ---------------------------------------------------------------------------

\* C30: after any sequence of init and setLightingModel calls the lighting
\* model is PHONG only if the shaders were loaded; a request for PHONG while
\* they are not loaded leaves the model at GOURAUD, and render has never
\* used a Phong program while none was created.
C30_PhongOnlyWithShaders ==
    /\ currentLightingModel = "PHONG" => shadersLoaded
    /\ ~shadersLoaded =>
          /\ LightingModelAfter("PHONG", shadersLoaded) = "GOURAUD"
          /\ ProgramOfRender = 0
          /\ programInUse = 0

\* The shaders are loaded, the model is PHONG and render has drawn with the
\* Phong program.
C30_Witness ==
    /\ shadersLoaded
    /\ currentLightingModel = "PHONG"
    /\ phongProgram = PhongHandle
    /\ programInUse = PhongHandle

====
